---------------------------- MODULE Spec2Model ----------------------------
(***************************************************************************)
(* A model of the research assistant: the five-stage pipeline run by       *)
(* ResearchCoordinator.process_query (graph/coordinator.py), the agents    *)
(* behind its nodes (agents/*.py) and the hybrid retriever                 *)
(* (rag/retriever.py, rag/web_search.py).                                  *)
(*                                                                         *)
(* Python values are modelled as follows.                                  *)
(*   dict   a record whose DOMAIN is the set of keys present               *)
(*   list   a sequence ([] and {} are both the empty function <<>>)        *)
(*   float  relevance scores are integers in hundredths (0.5 is 50)        *)
(*   str(e) an exception message is the sequence of its ": "-separated     *)
(*          segments, so f"prefix: {str(e)}" is <<prefix>> \o e            *)
(***************************************************************************)
EXTENDS Integers, Sequences, FiniteSets, TLC

(***************************************************************************)
(* Bounds of the model.                                                    *)
(***************************************************************************)
MaxHits == 2     \* longest list of hits the vector index answers with
MaxWeb == 2      \* longest list of results the web search answers with
MaxLimit == 3    \* largest limit passed to HybridRetriever.retrieve
MaxDocs == 3     \* longest list passed to ResearchAgent.filter_by_relevance
MaxCarriedErrors == 1  \* most errors the agents may hold when a further run starts
MaxTasks == 2    \* most research tasks started by POST /research
MaxClock == 3    \* last instant of the clock, in ticks
MaxPairs == 2    \* longest lists passed to a direct call of CriticAgent.process

(***************************************************************************)
(* The inputs the environment supplies.                                    *)
(***************************************************************************)
Titles == {"Transformers", "transformers ", "GNN"}
WebTitles == {"transformers ", "BERT"}
\* similarity scores of the index, in hundredths (cosine: may be negative)
ScoreValues == {-10, 0, 50, 80}

\* A hit of qdrant_client.search: result.payload and result.score.
Hits == [payload : [text : {"paper text"}, metadata : [title : Titles]],
         score : ScoreValues]

\* A result of WebSearch.search, with the outcome of extract_content on
\* its link (ok: the page was fetched and parsed).
WebResults == [title : WebTitles, link : {"example.org"},
               snippet : {"snippet"}, ok : BOOLEAN]

SeqsUpTo(S, n) == UNION {[1..k -> S] : k \in 0..n}

HitLists == SeqsUpTo(Hits, MaxHits)
WebResultLists == SeqsUpTo(WebResults, MaxWeb)

(***************************************************************************)
(* Python helpers.                                                         *)
(***************************************************************************)
\* dict.get(key, default)
Get(d, k, default) == IF k \in DOMAIN d THEN d[k] ELSE default

\* d[key] = value
SetKey(d, k, v) == [x \in DOMAIN d \cup {k} |-> IF x = k THEN v ELSE d[x]]

\* a.update(b): the keys of b win
Update(a, b) == [x \in DOMAIN a \cup DOMAIN b |-> IF x \in DOMAIN b THEN b[x] ELSE a[x]]

Min(a, b) == IF a <= b THEN a ELSE b

\* seq[:n] for n >= 0
SlicePrefix(s, n) == SubSeq(s, 1, Min(n, Len(s)))

\* f"{prefix}: {str(e)}"
Wrap(prefix, e) == <<prefix>> \o e

(***************************************************************************)
(* rag/retriever.py and rag/web_search.py                                  *)
(***************************************************************************)
\* retriever.py:94-100: one Qdrant hit becomes a Document
HitDocument(h) ==
    [page_content |-> h.payload.text,
     metadata |-> SetKey(SetKey(h.payload.metadata, "relevance_score", h.score),
                         "source", "database")]

DatabaseDocuments(hits) == [i \in 1..Len(hits) |-> HitDocument(hits[i])]

\* web_search.py:41: soup.select('.result')[:max_results]
SearchResults(results, max_results) == SlicePrefix(results, max_results)

\* web_search.py:119-129: one search result becomes a Document
WebDocument(r) ==
    [page_content |-> "page text",
     metadata |-> [title |-> r.title, url |-> r.link,
                   snippet |-> r.snippet, source |-> "web"]]

\* a loop without the inner try: the first failed extraction ends it
RECURSIVE ExtractUntilFailure(_)
ExtractUntilFailure(results) ==
    IF results = <<>> \/ ~Head(results).ok THEN <<>>
    ELSE <<WebDocument(Head(results))>> \o ExtractUntilFailure(Tail(results))

\* web_search.py:114-136: the results whose extraction failed are skipped
RECURSIVE ExtractAll(_)
ExtractAll(results) ==
    IF results = <<>> THEN <<>>
    ELSE IF Head(results).ok
         THEN <<WebDocument(Head(results))>> \o ExtractAll(Tail(results))
         ELSE ExtractAll(Tail(results))

\* web_search.py:115-136: what the loop does towards the remote hosts, in
\* order: "fetch" is the request of extract_content (line 117), "sleep" the
\* time.sleep(1) of line 132, reached only when the fetch succeeded
RECURSIVE FetchTrace(_)
FetchTrace(results) ==
    IF results = <<>> THEN <<>>
    ELSE <<"fetch">> \o (IF Head(results).ok THEN <<"sleep">> ELSE <<>>)
            \o FetchTrace(Tail(results))

\* retriever.py:108: the sort key
RelevanceKey(doc) == Get(doc.metadata, "relevance_score", 0)

\* list.sort(key, reverse=True) is stable: d goes after every element whose
\* key is at least its own
RECURSIVE InsertDescTiesReversed(_, _)
InsertDescTiesReversed(sorted, d) ==
    IF sorted = <<>> THEN <<d>>
    ELSE IF RelevanceKey(Head(sorted)) > RelevanceKey(d)
         THEN <<Head(sorted)>> \o InsertDescTiesReversed(Tail(sorted), d)
         ELSE <<d>> \o sorted

RECURSIVE InsertDescStable(_, _)
InsertDescStable(sorted, d) ==
    IF sorted = <<>> THEN <<d>>
    ELSE IF RelevanceKey(Head(sorted)) >= RelevanceKey(d)
         THEN <<Head(sorted)>> \o InsertDescStable(Tail(sorted), d)
         ELSE <<d>> \o sorted

\* the sort left out
Unsorted(docs) == docs

RECURSIVE SortByRelevanceDesc(_)
SortByRelevanceDesc(docs) ==
    IF docs = <<>> THEN <<>>
    ELSE InsertDescStable(SortByRelevanceDesc(SubSeq(docs, 1, Len(docs) - 1)),
                          docs[Len(docs)])


\* the slice left out
Untruncated(docs, limit) == docs

\* retriever.py:110: documents[:limit]
Truncate(docs, limit) == SlicePrefix(docs, limit)

\* retriever.py:112-113: except Exception as e: raise Exception(...)
RetrieveError(e) == Wrap("Error retrieving documents", e)

\* web_search.py:140-141 around web_search.py:59-60
SearchAndExtractError(e) == Wrap("Error in search and extract", Wrap("Error searching web", e))

IndexUnreachable == <<"index unreachable">>
SearchUnreachable == <<"search unreachable">>

(***************************************************************************)
(* State.                                                                  *)
(***************************************************************************)
VARIABLES
    retrieval,    \* one call of HybridRetriever.retrieve: its arguments, locals and outcome
    state,        \* the ResearchState threaded through the graph
    pc,           \* the node the graph runs next, or "END"
    executed,     \* the nodes run so far, in order
    lastOutcome,  \* whether the agent call of the node run last returned or raised
    agentErrors,  \* AgentState.errors of each agent
    failures,     \* the causes of the failures met so far in the run, in order
    agentImpl,    \* "repo": the agents of agents/*.py; "injected": agents passed to __init__
    filterCall,   \* one call of ResearchAgent.filter_by_relevance, and one on its output
    api,          \* the API process: its clock, the tasks started, research_results
    criticCall    \* one direct call of CriticAgent.process: arguments, replies, outcome

retrievalVars == <<retrieval>>
pipelineVars == <<state, pc, executed, lastOutcome, agentErrors, failures, agentImpl>>
filterVars == <<filterCall>>
apiVars == <<api>>
criticVars == <<criticCall>>
vars == <<retrieval, state, pc, executed, lastOutcome, agentErrors, failures, agentImpl,
          filterCall, api, criticCall>>

(***************************************************************************)
(* HybridRetriever.retrieve, step by step (retriever.py:70-113).           *)
(***************************************************************************)
NoCall ==
    [pc |-> "idle", limit |-> 0, include_web |-> FALSE, documents |-> <<>>,
     candidates |-> <<>>, webCalled |-> FALSE, webResults |-> <<>>, webTrace |-> <<>>,
     error |-> <<>>, researched |-> FALSE, filtered |-> <<>>, processed |-> <<>>]

\* an except clause that swallows the failure and goes on with what it has
ReraiseSwallowed(r, e) ==
    [r EXCEPT !.pc = IF r.include_web /\ ~r.webCalled THEN "web" ELSE "sort",
              !.error = RetrieveError(e)]

\* retriever.py:112-113: whatever the try block raised leaves retrieve as
\* Exception("Error retrieving documents: ..."); nothing is returned
Reraise(r, e) ==
    [r EXCEPT !.pc = "raised", !.documents = <<>>, !.error = RetrieveError(e)]

\* retrieve(query, limit, include_web) is entered: documents = []
RetrieveCall(limit, include_web) ==
    [NoCall EXCEPT !.pc = "search", !.limit = limit, !.include_web = include_web]

\* retriever.py:85-100: the index is queried and its hits become documents,
\* or the query raises and line 112 re-raises
QdrantSearch ==
    /\ retrieval.pc = "search"
    /\ \/ \E hits \in HitLists :
            retrieval' = [retrieval EXCEPT
                            !.documents = DatabaseDocuments(hits),
                            !.pc = IF retrieval.include_web THEN "web" ELSE "sort"]
       \/ retrieval' = Reraise(retrieval, IndexUnreachable)
    /\ UNCHANGED <<pipelineVars, filterVars, apiVars, criticVars>>

\* retriever.py:103-105: the web documents are appended, or search raises
\* and line 112 re-raises
WebSearchAndExtract ==
    /\ retrieval.pc = "web"
    /\ \/ \E results \in WebResultLists :
            retrieval' = [retrieval EXCEPT
                            !.documents = retrieval.documents
                                \o ExtractAll(SearchResults(results, retrieval.limit)),
                            !.webCalled = TRUE,
                            !.webResults = SearchResults(results, retrieval.limit),
                            !.webTrace = FetchTrace(SearchResults(results, retrieval.limit)),
                            !.pc = "sort"]
       \/ retrieval' = Reraise([retrieval EXCEPT !.webCalled = TRUE],
                                SearchAndExtractError(SearchUnreachable))
    /\ UNCHANGED <<pipelineVars, filterVars, apiVars, criticVars>>

\* retriever.py:108-110: sort, truncate, return
SortAndTruncate ==
    /\ retrieval.pc = "sort"
    /\ retrieval' = [retrieval EXCEPT
                        !.candidates = retrieval.documents,
                        !.documents = Truncate(SortByRelevanceDesc(retrieval.documents),
                                               retrieval.limit),
                        !.pc = "returned"]
    /\ UNCHANGED <<pipelineVars, filterVars, apiVars, criticVars>>


\* retrieve(...) as one computation, for its callers: index and web are the
\* answers of the two collaborators
Retrieve(index, web, limit, include_web) ==
    IF ~index.ok
    THEN [raised |-> TRUE, error |-> RetrieveError(IndexUnreachable), documents |-> <<>>]
    ELSE IF include_web /\ ~web.ok
    THEN [raised |-> TRUE,
          error |-> RetrieveError(SearchAndExtractError(SearchUnreachable)),
          documents |-> <<>>]
    ELSE LET db == DatabaseDocuments(index.hits)
             docs == IF include_web
                     THEN db \o ExtractAll(SearchResults(web.results, limit))
                     ELSE db
         IN  [raised |-> FALSE, error |-> <<>>,
              documents |-> Truncate(SortByRelevanceDesc(docs), limit)]

IndexOutcomes ==
    {[ok |-> FALSE, hits |-> <<>>]} \cup {[ok |-> TRUE, hits |-> h] : h \in HitLists}

WebOutcomes ==
    {[ok |-> FALSE, results |-> <<>>]} \cup {[ok |-> TRUE, results |-> r] : r \in WebResultLists}

(***************************************************************************)
(* agents/research_agent.py                                                *)
(***************************************************************************)
\* retriever.py:70: limit: int = 10 (ResearchAgent.process passes no limit)
DefaultLimit == 10

\* research_agent.py:60: relevance_score > 0.5, in hundredths
RelevanceThreshold == 50

\* a relevance_score that > cannot compare with 0.5 (None, a string): the
\* comparison raises TypeError.  It is written as a number no score equals.
NotComparable == -1000

ScoreComparable(doc) == Get(doc.metadata, "relevance_score", 0) # NotComparable

\* a test that lets every document without a negative score through
PassesFromZero(doc) == Get(doc.metadata, "relevance_score", 0) >= 0

PassesFilter(doc) == Get(doc.metadata, "relevance_score", 0) > RelevanceThreshold

\* a filter that also returns its survivors best first
FilterThenSort(documents) == SortByRelevanceDesc(SelectSeq(documents, PassesFilter))

\* a filter that also drops the first of the documents it is given
FilterAfterFirst(documents) ==
    IF documents = <<>> THEN <<>> ELSE SelectSeq(Tail(documents), PassesFilter)

\* research_agent.py:56-66: the comprehension, or the input list itself when
\* a comparison raised
filter_by_relevance(documents) ==
    IF \A i \in DOMAIN documents : ScoreComparable(documents[i])
    THEN SelectSeq(documents, PassesFilter)
    ELSE documents

\* research_agent.py:64-65: what the except clause adds to state.errors
FilterErrors(documents) ==
    IF \A i \in DOMAIN documents : ScoreComparable(documents[i])
    THEN <<>>
    ELSE <<Wrap("Error filtering documents", <<"'>' not supported">>)>>

\* config.py:19: settings.MIN_RELEVANCE_SCORE, 0.5 unless the environment
\* or .env sets another value (config.py:45-47)
MinRelevanceScores == {50, 70}

\* the documents filter_by_relevance may be called with: unscored, scored,
\* or carrying a score that cannot be compared
FilterScores == {40, 50, 60, 90, NotComparable}

FilterDocuments ==
    [page_content : {"paper text"}, metadata : [title : {"paper"}]]
    \cup [page_content : {"paper text"},
          metadata : [title : {"paper"}, relevance_score : FilterScores]]

NoFilterCall ==
    [pc |-> "idle", min_relevance_score |-> 50, documents |-> <<>>,
     result |-> <<>>, again |-> <<>>, errors |-> <<>>]

\* filter_by_relevance(documents) runs to its return
FilterByRelevance ==
    /\ filterCall.pc = "called"
    /\ filterCall' = [filterCall EXCEPT
                        !.result = filter_by_relevance(filterCall.documents),
                        !.errors = FilterErrors(filterCall.documents),
                        !.pc = "returned"]
    /\ UNCHANGED <<pipelineVars, retrievalVars, apiVars, criticVars>>

\* filter_by_relevance is called on the list it returned
FilterAgain ==
    /\ filterCall.pc = "returned"
    /\ filterCall' = [filterCall EXCEPT
                        !.again = filter_by_relevance(filterCall.result),
                        !.errors = @ \o FilterErrors(filterCall.result),
                        !.pc = "returned twice"]
    /\ UNCHANGED <<pipelineVars, retrievalVars, apiVars, criticVars>>

\* an extraction that returns the six defaults whatever the document holds
BlankMetadata(doc) ==
    [title |-> "", authors |-> <<>>, year |-> "", source |-> "", url |-> "",
     relevance_score |-> 0]

\* research_agent.py:77-92
extract_metadata(doc) ==
    Update([title |-> Get(doc.metadata, "title", ""),
            authors |-> Get(doc.metadata, "authors", <<>>),
            year |-> Get(doc.metadata, "year", ""),
            source |-> Get(doc.metadata, "source", ""),
            url |-> Get(doc.metadata, "url", ""),
            relevance_score |-> Get(doc.metadata, "relevance_score", 0)],
           doc.metadata)

\* research_agent.py:35-36: doc.metadata.update(await self.extract_metadata(doc))
WithMetadata(doc) == [doc EXCEPT !.metadata = Update(doc.metadata, extract_metadata(doc))]

\* ResearchAgent.process (research_agent.py:27-45): what it returns, what it
\* adds to its own state.errors, and the causes of the failures it met
ResearchProcess(index, web) ==
    LET r == Retrieve(index, web, DefaultLimit, TRUE)
        filtered == filter_by_relevance(r.documents)
    IN  IF r.raised
        THEN [value |-> <<>>,
              errors |-> <<Wrap("Error processing query", r.error)>>,
              failures |-> <<r.error[Len(r.error)]>>]
        ELSE [value |-> [i \in 1..Len(filtered) |-> WithMetadata(filtered[i])],
              errors |-> <<>>,
              failures |-> <<>>]

\* research_agent.py:29-45, from the return of retrieve on: the documents
\* are filtered and each survivor gets its metadata attached; when retrieve
\* raised, the except branch returns []
ResearchAfterRetrieve ==
    /\ retrieval.pc \in {"returned", "raised"}
    /\ ~retrieval.researched
    /\ LET filtered == IF retrieval.pc = "returned"
                        THEN filter_by_relevance(retrieval.documents)
                        ELSE <<>>
       IN  retrieval' = [retrieval EXCEPT
                            !.filtered = filtered,
                            !.processed = [i \in 1..Len(filtered) |-> WithMetadata(filtered[i])],
                            !.researched = TRUE]
    /\ UNCHANGED <<pipelineVars, filterVars, apiVars, criticVars>>


(***************************************************************************)
(* The language model.  A reply is the text of one completion call:        *)
(*   "down"        the call raises (ultrasafe_llm.py:84-85)                *)
(*   "prose"       text that is no Python expression: eval and float raise *)
(*   "structured"  text that evaluates to the value the prompt asks for    *)
(*   "None"        the text None, which evaluates to None                  *)
(*   "other dict"  a dict literal with other keys than the prompt's        *)
(*   "0.9"         a number                                                *)
(***************************************************************************)
LlmUnreachable == <<"Error calling UltraSafe API", "llm unreachable">>
InvalidSyntax == <<"invalid syntax">>
NotAFloat == <<"could not convert string to float">>

\* the value None
PyNone == [py_type |-> "NoneType"]

\* what a failed call or a failed eval raises
ReplyError(reply) == IF reply = "down" THEN LlmUnreachable ELSE InvalidSyntax

(***************************************************************************)
(* agents/summarizer_agent.py                                              *)
(***************************************************************************)
KeyInfoReplies == {"down", "prose", "structured"}
ChainReplies == {"down", "summary"}

DefaultKeyInfo ==
    [main_question |-> "", methodologies |-> <<>>, findings |-> <<>>,
     limitations |-> <<>>, future_work |-> <<>>]

ParsedKeyInfo ==
    [main_question |-> "question", methodologies |-> <<"method">>,
     findings |-> <<"finding">>, limitations |-> <<>>, future_work |-> <<>>]

\* summarizer_agent.py:82-112
extract_key_information(reply) ==
    IF reply = "structured" THEN ParsedKeyInfo ELSE DefaultKeyInfo

\* summarizer_agent.py:56-61
Summary(doc, keyInfoReply) ==
    [title |-> Get(doc.metadata, "title", ""),
     summary |-> "summary text",
     key_findings |-> extract_key_information(keyInfoReply),
     metadata |-> doc.metadata]

Repeat(x, n) == [i \in 1..n |-> x]

\* SummarizerAgent.process (summarizer_agent.py:44-70).  env.chain is "down"
\* when a call of the summarize chain raises, for whichever document: the one
\* try around the loop then leaves the loop and the call returns [].
\* env.keyinfo is the reply to the key-finding prompt, the same for every
\* document of the call.
SummarizerProcess(documents, env) ==
    IF documents = <<>>
    THEN [value |-> <<>>, errors |-> <<>>, failures |-> <<>>]
    ELSE IF env.chain = "down"
    THEN [value |-> <<>>,
          errors |-> <<Wrap("Error summarizing documents", LlmUnreachable)>>,
          failures |-> <<"llm unreachable">>]
    ELSE [value |-> [i \in 1..Len(documents) |-> Summary(documents[i], env.keyinfo)],
          errors |-> IF env.keyinfo = "structured" THEN <<>>
                     ELSE Repeat(Wrap("Error extracting key information",
                                      ReplyError(env.keyinfo)), Len(documents)),
          failures |-> IF env.keyinfo = "structured" THEN <<>>
                       ELSE Repeat(ReplyError(env.keyinfo)[Len(ReplyError(env.keyinfo))],
                                   Len(documents))]

SummarizerEnvs == [chain : ChainReplies, keyinfo : KeyInfoReplies]

SynthesisReplies == {"down", "prose", "structured", "None", "other dict"}

DefaultSynthesis ==
    [common_themes |-> <<>>, conflicting_findings |-> <<>>,
     complementary_insights |-> <<>>, research_gaps |-> <<>>,
     future_directions |-> <<>>]

\* eval(response.generations[0][0].text) at summarizer_agent.py:147
EvalSynthesis(reply) ==
    CASE reply = "structured" ->
            [common_themes |-> <<"theme">>, conflicting_findings |-> <<>>,
             complementary_insights |-> <<>>, research_gaps |-> <<"gap">>,
             future_directions |-> <<>>]
      [] reply = "None" -> PyNone
      [] reply = "other dict" -> [themes |-> "theme"]

\* SummarizerAgent.cross_document_synthesis (summarizer_agent.py:123-159)
CrossDocumentSynthesis(summaries, reply) ==
    IF reply \in {"down", "prose"}
    THEN [value |-> DefaultSynthesis,
          errors |-> <<Wrap("Error synthesizing documents", ReplyError(reply))>>,
          failures |-> <<ReplyError(reply)[Len(ReplyError(reply))]>>]
    ELSE [value |-> EvalSynthesis(reply), errors |-> <<>>, failures |-> <<>>]


(***************************************************************************)
(* agents/critic_agent.py.  A quotient a / b is kept as the pair           *)
(* [num |-> a, den |-> b].                                                 *)
(***************************************************************************)
ScoreReplies == {"down", "0.9"}
\* the replies a direct call is checked with: "prose" is text float() rejects
DirectScoreReplies == {"down", "prose", "0.9"}
CritiqueReplies == {"prose", "structured"}

\* float(text.strip()) then min(max(score, 0), 1), in hundredths
\* (critic_agent.py:94-95)
ParseScore(reply) == CASE reply = "0.9" -> 90

\* a scorer that takes a reply it cannot parse for the top score
ScoreUnparsedAsOne(reply) ==
    IF reply = "down" THEN 0 ELSE IF reply = "prose" THEN 100 ELSE ParseScore(reply)

\* critic_agent.py:75-99, 112-133, 144-167: the except branch returns 0.0
\* when the call raises and when float() does
EvaluateScore(reply) == IF reply \in {"down", "prose"} THEN 0 ELSE ParseScore(reply)

\* the add_error call of that except branch
ScoreErrors(what, reply) ==
    IF reply = "down" THEN <<Wrap(what, LlmUnreachable)>>
    ELSE IF reply = "prose" THEN <<Wrap(what, NotAFloat)>>
    ELSE <<>>

DefaultCritique ==
    [strengths |-> <<>>, weaknesses |-> <<>>, methodological_concerns |-> <<>>,
     contribution |-> "", recommendations |-> <<>>]

ParsedCritique ==
    [strengths |-> <<"strength">>, weaknesses |-> <<>>,
     methodological_concerns |-> <<>>, contribution |-> "contribution",
     recommendations |-> <<>>]

\* critic_agent.py:179-208
generate_critique(reply) ==
    IF reply = "structured" THEN ParsedCritique ELSE DefaultCritique

\* critic_agent.py:44-51
Evaluation(doc, env) ==
    LET q == EvaluateScore(env.quality)
        r == EvaluateScore(env.relevance)
        m == EvaluateScore(env.methodology)
    IN  [title |-> Get(doc.metadata, "title", ""),
         quality_score |-> q,
         relevance_score |-> r,
         methodology_score |-> m,
         overall_score |-> [num |-> q + r + m, den |-> 3],
         critique |-> generate_critique(env.critique)]

\* the add_error calls of one pass of the loop, in order
EvaluationErrors(env) ==
    ScoreErrors("Error evaluating quality", env.quality)
    \o ScoreErrors("Error evaluating relevance", env.relevance)
    \o ScoreErrors("Error evaluating methodology", env.methodology)
    \o (IF env.critique = "structured" THEN <<>>
        ELSE <<Wrap("Error generating critique", InvalidSyntax)>>)

RECURSIVE Sum(_, _)
Sum(evaluations, key) ==
    IF evaluations = <<>> THEN 0
    ELSE evaluations[1][key] + Sum(Tail(evaluations), key)

RECURSIVE SumNum(_)
SumNum(evaluations) ==
    IF evaluations = <<>> THEN 0
    ELSE evaluations[1].overall_score.num + SumNum(Tail(evaluations))

\* an aggregate of totals: the sums are not divided by the number of entries
TotalScores(evaluations) ==
    IF evaluations = <<>> THEN <<>>
    ELSE [average_quality |-> [num |-> Sum(evaluations, "quality_score"), den |-> 1],
          average_relevance |-> [num |-> Sum(evaluations, "relevance_score"), den |-> 1],
          average_methodology |-> [num |-> Sum(evaluations, "methodology_score"), den |-> 1],
          average_overall |-> [num |-> SumNum(evaluations), den |-> 3]]

\* critic_agent.py:219-238
calculate_average_scores(evaluations) ==
    IF evaluations = <<>> THEN <<>>
    ELSE LET n == Len(evaluations)
         IN  [average_quality |-> [num |-> Sum(evaluations, "quality_score"), den |-> n],
              average_relevance |-> [num |-> Sum(evaluations, "relevance_score"), den |-> n],
              average_methodology |-> [num |-> Sum(evaluations, "methodology_score"), den |-> n],
              average_overall |-> [num |-> SumNum(evaluations), den |-> 3 * n]]

RECURSIVE Flatten(_)
Flatten(seqs) == IF seqs = <<>> THEN <<>> ELSE Head(seqs) \o Flatten(Tail(seqs))

LastSegments(errors) == [i \in 1..Len(errors) |-> errors[i][Len(errors[i])]]

\* CriticAgent.process (critic_agent.py:32-63): zip stops at the shorter list.
\* envs[i] holds the replies to the four prompts about the i-th pair.
CriticProcess(documents, summaries, envs) ==
    LET n == Min(Len(documents), Len(summaries))
        evaluations == [i \in 1..n |-> Evaluation(documents[i], envs[i])]
        errors == Flatten([i \in 1..n |-> EvaluationErrors(envs[i])])
    IN  [value |-> [evaluations |-> evaluations,
                    average_scores |-> calculate_average_scores(evaluations)],
         errors |-> errors,
         failures |-> LastSegments(errors)]

CriticEnvs ==
    [quality : ScoreReplies, relevance : ScoreReplies,
     methodology : ScoreReplies, critique : CritiqueReplies]

DirectCriticEnvs ==
    [quality : DirectScoreReplies, relevance : DirectScoreReplies,
     methodology : DirectScoreReplies, critique : CritiqueReplies]

\* the i-th document a direct call is made with
CriticDocument(i) ==
    [page_content |-> "paper text",
     metadata |-> [title |-> IF i % 2 = 1 THEN "Transformers" ELSE "GNN"]]

NoCriticCall ==
    [pc |-> "idle", documents |-> <<>>, summaries |-> <<>>, replies |-> <<>>,
     value |-> <<>>, errors |-> <<>>]

\* process(documents, summaries) runs to its return; replies[i] is what the
\* language model answers to the prompts about the i-th pair
CriticAgentProcess ==
    /\ criticCall.pc = "called"
    /\ \E replies \in [1..Min(Len(criticCall.documents), Len(criticCall.summaries))
                            -> DirectCriticEnvs] :
            LET r == CriticProcess(criticCall.documents, criticCall.summaries, replies)
            IN  criticCall' = [criticCall EXCEPT !.replies = replies, !.value = r.value,
                                                  !.errors = r.errors, !.pc = "returned"]
    /\ UNCHANGED <<pipelineVars, retrievalVars, filterVars, apiVars>>


(***************************************************************************)
(* agents/writer_agent.py                                                  *)
(***************************************************************************)
WriterReplies == {"down", "prose", "structured"}

\* evaluations['average_scores'] raises KeyError on the initial {}
MissingAverageScores == <<"'average_scores'">>

HasAverageScores(evaluations) == "average_scores" \in DOMAIN evaluations

\* what a section's try block raises, <<>> when it raises nothing
\* (needsScores: the prompt reads evaluations['average_scores'];
\*  evaluated: the reply goes through eval)
SectionFailure(evaluations, reply, needsScores, evaluated) ==
    IF needsScores /\ ~HasAverageScores(evaluations) THEN MissingAverageScores
    ELSE IF reply = "down" THEN LlmUnreachable
    ELSE IF evaluated /\ reply = "prose" THEN InvalidSyntax
    ELSE <<>>

SectionErrors(what, failure) ==
    IF failure = <<>> THEN <<>> ELSE <<Wrap(what, failure)>>

\* writer_agent.py:311-326
Reference(doc) ==
    [title |-> Get(doc.metadata, "title", ""),
     authors |-> Get(doc.metadata, "authors", <<>>),
     year |-> Get(doc.metadata, "year", ""),
     source |-> Get(doc.metadata, "source", ""),
     url |-> Get(doc.metadata, "url", "")]

\* a reference list that leaves out the documents without a url
ReferencesWithUrl(documents) ==
    LET linked == SelectSeq(documents, LAMBDA d : Get(d.metadata, "url", "") # "")
    IN  [i \in 1..Len(linked) |-> Reference(linked[i])]

\* writer_agent.py:312-322: one reference per document, in order
generate_references(documents) == [i \in 1..Len(documents) |-> Reference(documents[i])]

WriterEnvs == [llm : WriterReplies, saved : BOOLEAN]

\* a writer whose sections do not catch: a first failure reaches line 90,
\* which returns {}
WriterProcessUncaught(query, documents, summaries, evaluations, synthesis, env) ==
    LET failure == SectionFailure(evaluations, env.llm, TRUE, TRUE)
    IN  IF failure = <<>>
        THEN [value |->
                [title |-> <<"Research Report", query>>,
                 date |-> "today",
                 query |-> query,
                 executive_summary |-> "executive summary",
                 methodology |-> [approach |-> "approach"],
                 findings |-> [themes |-> "themes"],
                 analysis |-> [quality |-> "quality"],
                 recommendations |->
                    <<[category |-> "research", recommendation |-> "recommendation"]>>,
                 references |-> generate_references(documents)],
              errors |-> IF env.saved THEN <<>>
                         ELSE <<Wrap("Error saving report", <<"disk full">>)>>,
              failures |-> IF env.saved THEN <<>> ELSE <<"disk full">>]
        ELSE [value |-> <<>>,
              errors |-> <<Wrap("Error generating report", failure)>>,
              failures |-> <<failure[Len(failure)]>>]

\* WriterAgent.process (writer_agent.py:47-92).  env.llm is the reply to the
\* five section prompts and env.saved whether json.dump to the file worked.
WriterProcess(query, documents, summaries, evaluations, synthesis, env) ==
    LET summaryF == SectionFailure(evaluations, env.llm, TRUE, FALSE)
        methodologyF == SectionFailure(evaluations, env.llm, TRUE, TRUE)
        findingsF == SectionFailure(evaluations, env.llm, FALSE, TRUE)
        analysisF == SectionFailure(evaluations, env.llm, FALSE, TRUE)
        recommendationsF == SectionFailure(evaluations, env.llm, TRUE, TRUE)
        errors ==
            SectionErrors("Error generating executive summary", summaryF)
            \o SectionErrors("Error generating methodology section", methodologyF)
            \o SectionErrors("Error generating findings section", findingsF)
            \o SectionErrors("Error generating analysis section", analysisF)
            \o SectionErrors("Error generating recommendations", recommendationsF)
            \o (IF env.saved THEN <<>> ELSE <<Wrap("Error saving report", <<"disk full">>)>>)
    IN  [value |->
            [title |-> <<"Research Report", query>>,
             date |-> "today",
             query |-> query,
             executive_summary |-> IF summaryF = <<>> THEN "executive summary" ELSE "",
             methodology |-> IF methodologyF = <<>> THEN [approach |-> "approach"] ELSE <<>>,
             findings |-> IF findingsF = <<>> THEN [themes |-> "themes"] ELSE <<>>,
             analysis |-> IF analysisF = <<>> THEN [quality |-> "quality"] ELSE <<>>,
             recommendations |->
                IF recommendationsF = <<>>
                THEN <<[category |-> "research", recommendation |-> "recommendation"]>>
                ELSE <<>>,
             references |-> generate_references(documents)],
         errors |-> errors,
         failures |-> LastSegments(errors)]


(***************************************************************************)
(* graph/coordinator.py                                                    *)
(***************************************************************************)
Queries == {"graph neural networks", "transformers"}

Stages == {"research", "summarize", "evaluate", "synthesize", "write"}

\* coordinator.py:60
EntryPoint == "research"

\* a graph that leaves out the evaluate node
EdgeSkippingEvaluate ==
    [s \in Stages |->
        CASE s = "research" -> "summarize"
          [] s = "summarize" -> "synthesize"
          [] s = "evaluate" -> "synthesize"
          [] s = "synthesize" -> "write"
          [] s = "write" -> "END"]

\* coordinator.py:53-57: the add_edge calls
Edge ==
    [s \in Stages |->
        CASE s = "research" -> "summarize"
          [] s = "summarize" -> "evaluate"
          [] s = "evaluate" -> "synthesize"
          [] s = "synthesize" -> "write"
          [] s = "write" -> "END"]

\* coordinator.py:125-133
initial_state(query) ==
    [query |-> query, documents |-> <<>>, summaries |-> <<>>, evaluations |-> <<>>,
     synthesis |-> <<>>, report |-> <<>>, errors |-> <<>>]

\* a node that returns its own field only, on a fresh state
NodeReturnFresh(st, key, value) == SetKey(initial_state(st["query"]), key, value)

\* return {**state, key: value}
NodeReturn(st, key, value) == SetKey(st, key, value)

\* an except branch that forgets the errors recorded before
NodeExceptForgetting(st, e) == SetKey(st, "errors", <<e>>)

\* return {**state, "errors": state.get("errors", []) + [str(e)]}
NodeExcept(st, e) == SetKey(st, "errors", Get(st, "errors", <<>>) \o <<e>>)

\* what an agent passed to ResearchCoordinator.__init__ may raise
AgentRaised == <<"agent raised">>

\* the graph moves on to the node's successor (the engine of app.ainvoke)
Advance ==
    /\ pc' = Edge[pc]
    /\ executed' = Append(executed, pc)
    /\ UNCHANGED <<agentImpl, retrieval, filterVars, apiVars, criticVars>>

\* the agent call of a node returned r
Returned(key, agent, r) ==
    /\ state' = NodeReturn(state, key, r.value)
    /\ agentErrors' = [agentErrors EXCEPT ![agent] = @ \o r.errors]
    /\ failures' = failures \o r.failures
    /\ lastOutcome' = "returned"

\* an agent call that may raise whichever agents the coordinator was built with
RaisedByAnyAgent ==
    /\ state' = NodeExcept(state, AgentRaised)
    /\ failures' = failures \o AgentRaised
    /\ lastOutcome' = "raised"
    /\ UNCHANGED agentErrors

\* the agent call of a node raised: only an agent other than the
\* repository's does (each process of agents/*.py catches Exception)
Raised ==
    /\ agentImpl = "injected"
    /\ state' = NodeExcept(state, AgentRaised)
    /\ failures' = failures \o AgentRaised
    /\ lastOutcome' = "raised"
    /\ UNCHANGED agentErrors

\* coordinator.py:64-70
research_node ==
    /\ pc = "research"
    /\ \/ \E index \in IndexOutcomes, web \in WebOutcomes :
            Returned("documents", "research", ResearchProcess(index, web))
       \/ Raised
    /\ Advance

\* coordinator.py:72-78
summarize_node ==
    /\ pc = "summarize"
    /\ \/ \E env \in SummarizerEnvs :
            Returned("summaries", "summarizer", SummarizerProcess(state["documents"], env))
       \/ Raised
    /\ Advance

\* coordinator.py:80-89; the language model answers the prompts about every
\* pair of one run alike
evaluate_node ==
    /\ pc = "evaluate"
    /\ \/ \E env \in CriticEnvs :
            Returned("evaluations", "critic",
                     CriticProcess(state["documents"], state["summaries"],
                                   [i \in 1..Len(state["documents"]) |-> env]))
       \/ Raised
    /\ Advance

\* coordinator.py:91-99
synthesize_node ==
    /\ pc = "synthesize"
    /\ \/ \E reply \in SynthesisReplies :
            Returned("synthesis", "summarizer",
                     CrossDocumentSynthesis(state["summaries"], reply))
       \/ Raised
    /\ Advance

\* coordinator.py:101-113
write_node ==
    /\ pc = "write"
    /\ \/ \E env \in WriterEnvs :
            Returned("report", "writer",
                     WriterProcess(state["query"], state["documents"], state["summaries"],
                                   state["evaluations"], state["synthesis"], env))
       \/ Raised
    /\ Advance

NoAgentErrors == [research |-> <<>>, summarizer |-> <<>>, critic |-> <<>>, writer |-> <<>>]

(***************************************************************************)
(* api/main.py.  The clock counts ticks; a second has TicksPerSecond of    *)
(* them.  A task's run of process_query is kept as its outcome only.       *)
(***************************************************************************)
TicksPerSecond == 2

\* datetime.now().strftime('%Y%m%d_%H%M%S') drops what is below the second
Timestamp(now) == now \div TicksPerSecond

\* api/main.py:78: f"research_{...}"
QueryId(now) == <<"research", Timestamp(now)>>

\* api/main.py:61: research_results = {}, and no task started
NoRequests == [clock |-> 0, tasks |-> <<>>, research_results |-> <<>>]

\* time passes
Tick ==
    /\ api.clock < MaxClock
    /\ api' = [api EXCEPT !.clock = @ + 1]
    /\ UNCHANGED <<pipelineVars, retrievalVars, filterVars, criticVars>>

\* api/main.py:75-80: POST /research names the task after the current
\* second and schedules it
start_research ==
    /\ Len(api.tasks) < MaxTasks
    /\ \E q \in Queries :
            api' = [api EXCEPT !.tasks = Append(@, [query_id |-> QueryId(api.clock),
                                                    query |-> q, recorded |-> FALSE])]
    /\ UNCHANGED <<pipelineVars, retrievalVars, filterVars, criticVars>>

\* api/main.py:63-73: the background task stores the final state of
\* process_query, or an error record when it raised, under its query_id
process_research_task ==
    /\ \E i \in DOMAIN api.tasks :
            /\ ~api.tasks[i].recorded
            /\ \E raised \in BOOLEAN :
                    api' = [api EXCEPT
                        !.research_results =
                            SetKey(@, api.tasks[i].query_id,
                                   IF raised
                                   THEN [task |-> i, error |-> "process_query raised"]
                                   ELSE [task |-> i, query |-> api.tasks[i].query]),
                        !.tasks[i].recorded = TRUE]
    /\ UNCHANGED <<pipelineVars, retrievalVars, filterVars, criticVars>>

\* api/main.py:89-98: GET /research/{query_id}/status
get_research_status(research_results, query_id) ==
    IF query_id \notin DOMAIN research_results THEN "not found"
    ELSE IF "error" \notin DOMAIN research_results[query_id] THEN "completed"
    ELSE "failed"

\* api/main.py:82-87: GET /research/{query_id}
get_research_results(research_results, query_id) ==
    IF query_id \notin DOMAIN research_results THEN "not found"
    ELSE "found"

\* process_query(query) has built initial_state and enters the graph
Init ==
    /\ \E q \in Queries : state = initial_state(q)
    /\ pc = EntryPoint
    /\ executed = <<>>
    /\ lastOutcome = "none"
    /\ agentErrors = NoAgentErrors
    /\ failures = <<>>
    /\ agentImpl \in {"repo", "injected"}
    /\ retrieval = NoCall
    /\ filterCall = NoFilterCall
    /\ api = NoRequests
    /\ criticCall = NoCriticCall

Next ==
    \/ research_node
    \/ summarize_node
    \/ evaluate_node
    \/ synthesize_node
    \/ write_node

Spec == Init /\ [][Next]_vars

TotalAgentErrors ==
    Len(agentErrors.research) + Len(agentErrors.summarizer)
        + Len(agentErrors.critic) + Len(agentErrors.writer)

\* api/main.py:66: process_query is called again on the coordinator built
\* once at api/main.py:31-42.  The run gets a new initial_state
\* (coordinator.py:125-133); the agents are the same objects and nothing
\* resets their state (base_agent.py:18 runs once, in __init__).
process_query_again ==
    /\ pc = "END"
    /\ TotalAgentErrors <= MaxCarriedErrors
    /\ \E q \in Queries : state' = initial_state(q)
    /\ pc' = EntryPoint
    /\ executed' = <<>>
    /\ lastOutcome' = "none"
    /\ failures' = <<>>
    /\ UNCHANGED <<agentErrors, agentImpl, retrieval, filterVars, apiVars, criticVars>>

NextRuns ==
    \/ Next
    \/ process_query_again

\* run after run on one coordinator
SpecRuns == Init /\ [][NextRuns]_vars

\* retrieve(query, limit, include_web) has been called
InitRetrieve ==
    /\ \E limit \in 0..MaxLimit, include_web \in BOOLEAN :
            retrieval = RetrieveCall(limit, include_web)
    /\ state = initial_state("graph neural networks")
    /\ pc = "idle"
    /\ executed = <<>>
    /\ lastOutcome = "none"
    /\ agentErrors = NoAgentErrors
    /\ failures = <<>>
    /\ agentImpl = "repo"
    /\ filterCall = NoFilterCall
    /\ api = NoRequests
    /\ criticCall = NoCriticCall

NextRetrieve ==
    \/ QdrantSearch
    \/ WebSearchAndExtract
    \/ SortAndTruncate

SpecRetrieve == InitRetrieve /\ [][NextRetrieve]_vars

\* the call of retrieve is the one of ResearchAgent.process, which goes on
\* with what retrieve returned or raised
NextResearch ==
    \/ QdrantSearch
    \/ WebSearchAndExtract
    \/ SortAndTruncate
    \/ ResearchAfterRetrieve

SpecResearch == InitRetrieve /\ [][NextResearch]_vars

\* filter_by_relevance(documents) has been called
InitFilter ==
    /\ \E documents \in SeqsUpTo(FilterDocuments, MaxDocs), minimum \in MinRelevanceScores :
            filterCall = [NoFilterCall EXCEPT !.pc = "called", !.documents = documents,
                                              !.min_relevance_score = minimum]
    /\ retrieval = NoCall
    /\ state = initial_state("graph neural networks")
    /\ pc = "idle"
    /\ executed = <<>>
    /\ lastOutcome = "none"
    /\ agentErrors = NoAgentErrors
    /\ failures = <<>>
    /\ agentImpl = "repo"
    /\ api = NoRequests
    /\ criticCall = NoCriticCall

NextFilter ==
    \/ FilterByRelevance
    \/ FilterAgain

SpecFilter == InitFilter /\ [][NextFilter]_vars

\* the API process has started
InitApi ==
    /\ api = NoRequests
    /\ criticCall = NoCriticCall
    /\ retrieval = NoCall
    /\ filterCall = NoFilterCall
    /\ state = initial_state("graph neural networks")
    /\ pc = "idle"
    /\ executed = <<>>
    /\ lastOutcome = "none"
    /\ agentErrors = NoAgentErrors
    /\ failures = <<>>
    /\ agentImpl = "repo"

NextApi ==
    \/ Tick
    \/ start_research
    \/ process_research_task

SpecApi == InitApi /\ [][NextApi]_vars

\* CriticAgent.process(documents, summaries) has been called
InitEvaluate ==
    /\ \E nd \in 0..MaxPairs, ns \in 0..MaxPairs :
            criticCall = [NoCriticCall EXCEPT
                            !.pc = "called",
                            !.documents = [i \in 1..nd |-> CriticDocument(i)],
                            !.summaries = [i \in 1..ns |->
                                              Summary(CriticDocument(i), "structured")]]
    /\ api = NoRequests
    /\ retrieval = NoCall
    /\ filterCall = NoFilterCall
    /\ state = initial_state("graph neural networks")
    /\ pc = "idle"
    /\ executed = <<>>
    /\ lastOutcome = "none"
    /\ agentErrors = NoAgentErrors
    /\ failures = <<>>
    /\ agentImpl = "repo"

NextEvaluate == CriticAgentProcess

SpecEvaluate == InitEvaluate /\ [][NextEvaluate]_vars


(***************************************************************************)
(* Properties of HybridRetriever.retrieve, checked under SpecRetrieve.     *)
(***************************************************************************)
RetrieveReturned == retrieval.pc = "returned"

Count(s, x) == Cardinality({i \in DOMAIN s : s[i] = x})

Keys(s) == {RelevanceKey(s[i]) : i \in DOMAIN s}

\* C6: the list retrieve returns is never longer than limit.
C6_LengthAtMostLimit ==
    RetrieveReturned => Len(retrieval.documents) <= retrieval.limit

\* a call that returned with more candidates than limit, some from the web
C6_Witness ==
    /\ RetrieveReturned
    /\ retrieval.limit > 0
    /\ retrieval.include_web
    /\ Len(retrieval.candidates) > retrieval.limit
    /\ Len(retrieval.documents) = retrieval.limit

\* C7: the list retrieve returns is sorted non-increasing by relevance_score
\* (0 for an entry without one), it is made of candidates only, as many as
\* limit allows, and no candidate left out scores strictly higher than one
\* returned.
C7_SortedHighestFirst ==
    RetrieveReturned =>
        LET out == retrieval.documents
            cands == retrieval.candidates
        IN  /\ \A i \in 1..Len(out) - 1 : RelevanceKey(out[i]) >= RelevanceKey(out[i + 1])
            /\ \A i \in DOMAIN out : Count(out, out[i]) <= Count(cands, out[i])
            /\ Len(out) = Min(retrieval.limit, Len(cands))
            /\ \A i \in DOMAIN out, j \in DOMAIN cands :
                    RelevanceKey(cands[j]) > RelevanceKey(out[i])
                        => Count(out, cands[j]) = Count(cands, cands[j])

\* a call whose candidates came out of order, a web one among them, and
\* did not all fit
C7_Witness ==
    /\ RetrieveReturned
    /\ retrieval.limit > 0
    /\ Len(retrieval.candidates) > retrieval.limit
    /\ \E i, j \in DOMAIN retrieval.candidates :
            /\ i < j
            /\ RelevanceKey(retrieval.candidates[i]) < RelevanceKey(retrieval.candidates[j])
            /\ "relevance_score" \notin DOMAIN retrieval.candidates[j].metadata

\* lower case, runs of white space collapsed, ends trimmed
NormalizeTitle(title) ==
    CASE title = "Transformers" -> "transformers"
      [] title = "transformers " -> "transformers"
      [] title = "GNN" -> "gnn"
      [] title = "BERT" -> "bert"

NormalizedTitles(s) == {NormalizeTitle(s[i].metadata.title) : i \in DOMAIN s}

\* C8: the list retrieve returns holds no two entries with the same
\* normalized title; of the candidates that collide the highest-scored one
\* is kept, and the merge comes before the truncation.
C8_NoTwoEntriesWithSameTitle ==
    RetrieveReturned =>
        LET out == retrieval.documents
            cands == retrieval.candidates
        IN  /\ \A i, j \in DOMAIN out :
                    i # j => NormalizeTitle(out[i].metadata.title)
                                # NormalizeTitle(out[j].metadata.title)
            /\ \A i \in DOMAIN out, j \in DOMAIN cands :
                    NormalizeTitle(out[i].metadata.title)
                        = NormalizeTitle(cands[j].metadata.title)
                    => RelevanceKey(out[i]) >= RelevanceKey(cands[j])
            /\ Len(out) = Min(retrieval.limit, Cardinality(NormalizedTitles(cands)))

\* C9: entries of the returned list with equal relevance_score keep their
\* discovery order: they are the first such candidates, in candidate order,
\* the candidates being the index hits followed by the web documents, so a
\* database entry never follows a web entry of the same score.
C9_TiesKeepDiscoveryOrder ==
    RetrieveReturned =>
        LET out == retrieval.documents
            cands == retrieval.candidates
        IN  /\ \A k \in Keys(out) :
                    LET HasKey(d) == RelevanceKey(d) = k
                        kept == SelectSeq(out, HasKey)
                    IN  kept = SubSeq(SelectSeq(cands, HasKey), 1, Len(kept))
            /\ \A i, j \in DOMAIN cands :
                    (i < j /\ cands[i].metadata.source = "web")
                        => cands[j].metadata.source = "web"
            /\ \A i, j \in DOMAIN out :
                    (i < j /\ RelevanceKey(out[i]) = RelevanceKey(out[j]))
                        => ~(out[i].metadata.source = "web"
                             /\ out[j].metadata.source = "database")

\* a returned list with two different database entries of one score, then a
\* web entry of the same score
C9_Witness ==
    /\ RetrieveReturned
    /\ \E i, j, k \in DOMAIN retrieval.documents :
            /\ i < j /\ j < k
            /\ RelevanceKey(retrieval.documents[i]) = RelevanceKey(retrieval.documents[k])
            /\ RelevanceKey(retrieval.documents[j]) = RelevanceKey(retrieval.documents[k])
            /\ retrieval.documents[i] # retrieval.documents[j]
            /\ retrieval.documents[i].metadata.source = "database"
            /\ retrieval.documents[j].metadata.source = "database"
            /\ retrieval.documents[k].metadata.source = "web"

\* C10: every web document that reaches the sort of retrieve carries a
\* relevance_score.
C10_WebDocumentsAreScored ==
    retrieval.pc = "sort" =>
        \A i \in DOMAIN retrieval.documents :
            retrieval.documents[i].metadata.source = "web"
                => "relevance_score" \in DOMAIN retrieval.documents[i].metadata


(***************************************************************************)
(* Properties of one run of process_query, checked under Spec.             *)
(***************************************************************************)
StageOrder == <<"research", "summarize", "evaluate", "synthesize", "write">>

Range(s) == {s[i] : i \in DOMAIN s}

\* C1: a run executes the five stages in the order research, summarize,
\* evaluate, synthesize, write, each once, whatever succeeds or fails, and
\* then completes: what has been executed is always a prefix of that order,
\* the node to run next is the one after it, a run that has not reached END
\* can always take its next step, and at END all five have run.
C1_FiveStagesInOrder ==
    /\ Len(executed) <= Len(StageOrder)
    /\ executed = SubSeq(StageOrder, 1, Len(executed))
    /\ pc = (IF Len(executed) < Len(StageOrder) THEN StageOrder[Len(executed) + 1] ELSE "END")
    /\ pc # "END" => ENABLED Next

\* a run that completed with one stage call raised and a later one returned
C1_Witness ==
    /\ pc = "END"
    /\ executed = StageOrder
    /\ Len(state["errors"]) = 1
    /\ lastOutcome = "returned"

\* C2: when the agent call of a node raises, the state the node returns is
\* the input state with one message appended to errors and every other key
\* unchanged, and the graph goes on to the next stage with that state (to
\* END after write); a run not at END can always take a step.
C2_RaiseAppendsOneError ==
    /\ [][lastOutcome' = "raised" =>
            /\ DOMAIN state' = DOMAIN state
            /\ Len(state'["errors"]) = Len(state["errors"]) + 1
            /\ SubSeq(state'["errors"], 1, Len(state["errors"])) = state["errors"]
            /\ \A k \in DOMAIN state \ {"errors"} : state'[k] = state[k]
            /\ \E i \in DOMAIN StageOrder :
                    /\ pc = StageOrder[i]
                    /\ pc' = (IF i < Len(StageOrder) THEN StageOrder[i + 1] ELSE "END")
         ]_vars
    /\ [](pc # "END" => ENABLED Next)

\* a call raised after documents had been found and an earlier call had raised
C2_Witness ==
    /\ lastOutcome = "raised"
    /\ Len(state["errors"]) >= 2
    /\ state["documents"] # <<>>
    /\ pc = "END"

RECURSIVE IsSubsequence(_, _)
IsSubsequence(a, b) ==
    IF a = <<>> THEN TRUE
    ELSE IF b = <<>> THEN FALSE
    ELSE IF Head(a) = Head(b) THEN IsSubsequence(Tail(a), Tail(b))
    ELSE IsSubsequence(a, Tail(b))

RetrievalFailed ==
    \E i \in DOMAIN failures : failures[i] \in {"index unreachable", "search unreachable"}

\* C3: at the end of a run every failure met during it is described by a
\* string of final_state.errors, in the order the failures occurred, and a
\* run whose retrieval failed has a retrieval message among them.
C3_ErrorsDescribeEveryFailure ==
    pc = "END" =>
        /\ IsSubsequence(failures, LastSegments(state["errors"]))
        /\ RetrievalFailed =>
                \E i \in DOMAIN state["errors"] :
                    "Error retrieving documents" \in Range(state["errors"][i])

IndexFailed == failures # <<>> /\ failures[1] = "index unreachable"

AllKeys == {"query", "documents", "summaries", "evaluations", "synthesis", "report", "errors"}

OwnedField(stage) ==
    CASE stage = "research" -> "documents"
      [] stage = "summarize" -> "summaries"
      [] stage = "evaluate" -> "evaluations"
      [] stage = "synthesize" -> "synthesis"
      [] stage = "write" -> "report"

\* C5: in every state of a run all seven keys are present, none is null
\* (documents, summaries and errors are lists and query a string in every
\* state of this model, so the three mappings are the ones that could be),
\* and the field of a stage that has not run yet is empty.
C5_AllKeysPresentNoneNull ==
    /\ DOMAIN state = AllKeys
    /\ \A k \in {"evaluations", "synthesis", "report"} : state[k] # PyNone
    /\ \A stage \in Stages \ Range(executed) : state[OwnedField(stage)] = <<>>


(***************************************************************************)
(* Failures inside HybridRetriever.retrieve, checked under SpecRetrieve.   *)
(***************************************************************************)
IndexQueryFailed ==
    retrieval.error # <<>> /\ retrieval.error[Len(retrieval.error)] = "index unreachable"

WebSearchFailed ==
    retrieval.error # <<>> /\ retrieval.error[Len(retrieval.error)] = "search unreachable"

\* C11: when the index query fails, retrieve raises a retrieval error to
\* its caller, hands back no document, and the web search has not been and
\* will not be called in that call (the call is over).
C11_IndexFailureFailsFast ==
    IndexQueryFailed =>
        /\ retrieval.pc = "raised"
        /\ retrieval.error[1] = "Error retrieving documents"
        /\ retrieval.documents = <<>>
        /\ ~retrieval.webCalled
        /\ ~ENABLED NextRetrieve

\* a call with web search requested whose index query failed
C11_Witness ==
    /\ IndexQueryFailed
    /\ retrieval.include_web
    /\ retrieval.limit > 0

\* C12: when the index query succeeded and only the web search raised,
\* retrieve does not raise: the call goes on to return the database
\* documents, sorted and truncated.
C12_WebFailureDegrades ==
    (retrieval.webCalled /\ WebSearchFailed) =>
        /\ retrieval.pc # "raised"
        /\ retrieval.pc = "returned" =>
                retrieval.documents =
                    Truncate(SortByRelevanceDesc(retrieval.candidates), retrieval.limit)

\* the documents of the merge that came from the web, in merge order
WebPart(docs) == SelectSeq(docs, LAMBDA d : d.metadata.source = "web")

Merged == IF retrieval.pc = "returned" THEN retrieval.candidates ELSE retrieval.documents

\* the results of the search whose page could be extracted
Extracted == {i \in DOMAIN retrieval.webResults : retrieval.webResults[i].ok}

\* C13: a search result whose extraction failed is dropped and nothing
\* else: search_and_extract returns (it does not raise), the documents it
\* returns are one per result whose extraction succeeded, built from that
\* result, in the order of the search results.
C13_ExtractionFailureDropsOneItem ==
    (retrieval.webCalled /\ ~WebSearchFailed) =>
        /\ retrieval.pc \in {"sort", "returned"}
        /\ Len(WebPart(Merged)) = Cardinality(Extracted)
        /\ \A i \in Extracted :
                WebPart(Merged)[Cardinality({j \in Extracted : j <= i})]
                    = WebDocument(retrieval.webResults[i])

\* a search whose first result could not be extracted and whose second could
C13_Witness ==
    /\ retrieval.webCalled
    /\ Len(retrieval.webResults) = 2
    /\ ~retrieval.webResults[1].ok
    /\ retrieval.webResults[2].ok
    /\ Len(WebPart(Merged)) = 1
    /\ retrieval.pc = "returned"


(***************************************************************************)
(* Properties of ResearchAgent.filter_by_relevance, checked under          *)
(* SpecFilter.                                                             *)
(***************************************************************************)
FilterReturned == filterCall.pc # "called" /\ filterCall.pc # "idle"

Scored(doc) == "relevance_score" \in DOMAIN doc.metadata

AllComparable(docs) == \A i \in DOMAIN docs : ScoreComparable(docs[i])

\* C14: for documents whose scores are numbers (or absent, counting as 0),
\* the filter returns exactly those scoring strictly above
\* settings.MIN_RELEVANCE_SCORE, in their order.
C14_KeepsExactlyAboveMinimum ==
    (FilterReturned /\ AllComparable(filterCall.documents)) =>
        filterCall.result =
            SelectSeq(filterCall.documents,
                      LAMBDA d : Get(d.metadata, "relevance_score", 0)
                                    > filterCall.min_relevance_score)

\* C15: what the filter returns is a subsequence of what it was given: the
\* survivors in their order, nothing added, duplicated or altered.
C15_OutputIsSubsequence ==
    FilterReturned => IsSubsequence(filterCall.result, filterCall.documents)

\* two different survivors with a dropped document between them
C15_Witness ==
    /\ FilterReturned
    /\ Len(filterCall.documents) = 3
    /\ Len(filterCall.result) = 2
    /\ filterCall.result[1] # filterCall.result[2]
    /\ RelevanceKey(filterCall.result[1]) < RelevanceKey(filterCall.result[2])
    /\ filterCall.documents[2] # filterCall.result[1]
    /\ filterCall.documents[2] # filterCall.result[2]

\* C16: the filter applied to its own output returns that output.
C16_Idempotent ==
    filterCall.pc = "returned twice" => filterCall.again = filterCall.result

\* a second application to a list the first application had shortened
C16_Witness ==
    /\ filterCall.pc = "returned twice"
    /\ Len(filterCall.result) = 2
    /\ Len(filterCall.documents) = 3

\* C17: the filter returns for every input (it never raises), and what it
\* returns holds no unscored document and no document scoring at or below
\* the threshold, also when the input holds scores that cannot be compared.
C17_NeverRaisesAndExcludes ==
    FilterReturned =>
        \A i \in DOMAIN filterCall.result :
            /\ Scored(filterCall.result[i])
            /\ ScoreComparable(filterCall.result[i]) =>
                    filterCall.result[i].metadata.relevance_score > RelevanceThreshold


(***************************************************************************)
(* Properties of the write and synthesize stages, checked under Spec.      *)
(***************************************************************************)
WriteReturned == pc = "END" /\ lastOutcome = "returned"

ReferenceKeys == {"title", "authors", "year", "source", "url"}

\* C18: once the write stage has returned its report, report.references
\* has one entry per document of state.documents, in the same order, and
\* entry i holds the title, authors, year, source and url of document i.
C18_ReferencesFollowDocuments ==
    WriteReturned =>
        /\ Len(state["report"]["references"]) = Len(state["documents"])
        /\ \A i \in DOMAIN state["documents"] :
                /\ DOMAIN state["report"]["references"][i] = ReferenceKeys
                /\ \A k \in ReferenceKeys :
                        state["report"]["references"][i][k]
                            = state["documents"][i].metadata[k]

\* a report written for two documents with different titles
C18_Witness ==
    /\ WriteReturned
    /\ Len(state["documents"]) = 2
    /\ state["documents"][1].metadata.title # state["documents"][2].metadata.title
    /\ Len(state["report"]["references"]) = 2

SynthesisKeys ==
    {"common_themes", "conflicting_findings", "complementary_insights",
     "research_gaps", "future_directions"}

\* C19: once the synthesize stage has returned, whatever the language
\* model answered, state.synthesis is a mapping whose keys are exactly
\* common_themes, conflicting_findings, complementary_insights,
\* research_gaps and future_directions.
C19_SynthesisHasFixedShape ==
    (pc = "write" /\ lastOutcome = "returned") =>
        DOMAIN state["synthesis"] = SynthesisKeys


(***************************************************************************)
(* Runs on one coordinator, checked under SpecRuns.                        *)
(***************************************************************************)
RunStarts == pc = EntryPoint /\ executed = <<>>

\* C20: runs share no mutable state: when a run starts, the agents hold
\* nothing an earlier run wrote (no errors carried over), so what a run
\* created is gone once it has returned.
C20_RunsShareNothing ==
    RunStarts => agentErrors = NoAgentErrors


(***************************************************************************)
(* Properties of the result store, checked under SpecApi.                  *)
(***************************************************************************)
\* C21: any two tasks started by POST /research have distinct query_ids,
\* also when started within the same second, so the entry a task recorded
\* in research_results is never replaced by another task's entry.
C21_DistinctRunIdentifiers ==
    /\ \A i, j \in DOMAIN api.tasks :
            i # j => api.tasks[i].query_id # api.tasks[j].query_id
    /\ \A i \in DOMAIN api.tasks :
            api.tasks[i].recorded =>
                api.research_results[api.tasks[i].query_id].task = i


(***************************************************************************)
(* The requests of one search_and_extract call, checked under              *)
(* SpecRetrieve.                                                           *)
(***************************************************************************)
\* C22: between any two consecutive page fetches of one call there is a
\* wait, whether the earlier fetch succeeded or failed.
C22_WaitBetweenFetches ==
    \A i \in 1..(Len(retrieval.webTrace) - 1) :
        retrieval.webTrace[i] = "fetch" => retrieval.webTrace[i + 1] = "sleep"


(***************************************************************************)
(* Further properties of the pipeline, checked under Spec.                 *)
(***************************************************************************)
\* C23: a node writes the field it owns and nothing else: in the state it
\* returns every other field has the value of the input state; errors is
\* unchanged when the agent call returned, and when it raised errors has
\* one more message and the owned field is unchanged as well.  (States are
\* values here: the returned state is a new one by construction.)
C23_NodeWritesOwnFieldOnly ==
    [][(pc \in Stages) =>
            /\ DOMAIN state' = DOMAIN state
            /\ \A k \in DOMAIN state \ {OwnedField(pc), "errors"} : state'[k] = state[k]
            /\ lastOutcome' = "returned" => state'["errors"] = state["errors"]
            /\ lastOutcome' = "raised" =>
                    /\ state'[OwnedField(pc)] = state[OwnedField(pc)]
                    /\ Len(state'["errors"]) = Len(state["errors"]) + 1
                    /\ SubSeq(state'["errors"], 1, Len(state["errors"])) = state["errors"]
         ]_vars

\* the write node has returned a report on a state whose documents,
\* summaries and errors earlier nodes had filled
C23_Witness ==
    /\ pc = "END"
    /\ lastOutcome = "returned"
    /\ state["documents"] # <<>>
    /\ state["summaries"] # <<>>
    /\ state["errors"] # <<>>
    /\ state["report"] # <<>>


(***************************************************************************)
(* C24.  Per-document isolation in the summarize stage.                    *)
(***************************************************************************)
\* the add_error calls of SummarizerAgent.process's own except branch
SummarizingFailures ==
    Len(SelectSeq(agentErrors.summarizer,
                  LAMBDA e : e[1] = "Error summarizing documents"))

\* C24: when the summarize stage has returned, every document whose
\* processing did not fail has its summary, and the summaries follow the
\* order of the documents: at most as many documents are missing a summary as
\* failures were recorded, and the i-th summary is of the i-th document when
\* none is missing.
C24_FailuresIsolatedPerDocument ==
    (pc = "evaluate" /\ lastOutcome = "returned") =>
        /\ Len(state["summaries"]) + SummarizingFailures >= Len(state["documents"])
        /\ Len(state["summaries"]) = Len(state["documents"]) =>
                \A i \in DOMAIN state["summaries"] :
                    state["summaries"][i].metadata = state["documents"][i].metadata

(***************************************************************************)
(* C25, C26.  The scores of the evaluate stage.                            *)
(***************************************************************************)
\* a / b = c / d
SameQuotient(x, y) == x.num * y.den = y.num * x.den

ComponentTotal(e) == e.quality_score + e.relevance_score + e.methodology_score

RECURSIVE ComponentTotals(_)
ComponentTotals(es) ==
    IF es = <<>> THEN 0 ELSE ComponentTotal(Head(es)) + ComponentTotals(Tail(es))

RECURSIVE ScoreTotal(_, _)
ScoreTotal(es, key) ==
    IF es = <<>> THEN 0 ELSE Head(es)[key] + ScoreTotal(Tail(es), key)

\* C25: in what CriticAgent.process returns, every entry's overall_score is
\* the arithmetic mean of its quality, relevance and methodology scores, and
\* each value of average_scores is the mean of that score over all entries;
\* average_scores is the empty mapping when there is no entry.
C25_ScoresAreMeans ==
    criticCall.pc = "returned" =>
        LET es == criticCall.value.evaluations
            avg == criticCall.value.average_scores
            n == Len(es)
        IN  /\ \A i \in DOMAIN es :
                    SameQuotient(es[i].overall_score,
                                 [num |-> ComponentTotal(es[i]), den |-> 3])
            /\ n = 0 => avg = <<>>
            /\ n > 0 =>
                /\ DOMAIN avg = {"average_quality", "average_relevance",
                                 "average_methodology", "average_overall"}
                /\ SameQuotient(avg.average_quality,
                                [num |-> ScoreTotal(es, "quality_score"), den |-> n])
                /\ SameQuotient(avg.average_relevance,
                                [num |-> ScoreTotal(es, "relevance_score"), den |-> n])
                /\ SameQuotient(avg.average_methodology,
                                [num |-> ScoreTotal(es, "methodology_score"), den |-> n])
                /\ SameQuotient(avg.average_overall,
                                [num |-> ComponentTotals(es), den |-> 3 * n])

\* two entries with different scores, one of them with unequal components
C25_Witness ==
    /\ criticCall.pc = "returned"
    /\ Len(criticCall.value.evaluations) = 2
    /\ criticCall.value.evaluations[1].quality_score = 90
    /\ criticCall.value.evaluations[1].relevance_score = 0
    /\ criticCall.value.evaluations[2].quality_score = 0
    /\ criticCall.value.evaluations[2].methodology_score = 90

ReplyOf == [quality_score |-> "quality", relevance_score |-> "relevance",
            methodology_score |-> "methodology"]

\* C26: when a scoring call fails or its reply is not a number, that score
\* is 0.0; the other scores of the same document come from their own replies,
\* and every pair of the call still gets its entry.
C26_FailedScoreIsZero ==
    criticCall.pc = "returned" =>
        LET es == criticCall.value.evaluations
        IN  /\ Len(es) = Min(Len(criticCall.documents), Len(criticCall.summaries))
            /\ \A i \in DOMAIN es : \A k \in DOMAIN ReplyOf :
                    /\ criticCall.replies[i][ReplyOf[k]] \in {"down", "prose"} => es[i][k] = 0
                    /\ criticCall.replies[i][ReplyOf[k]] = "0.9" => es[i][k] = 90

\* a reply that is not a number and a call that fails, for the first of two
\* documents, whose third score and whose successor are scored
C26_Witness ==
    /\ criticCall.pc = "returned"
    /\ Len(criticCall.value.evaluations) = 2
    /\ criticCall.replies[1].quality = "prose"
    /\ criticCall.replies[1].relevance = "down"
    /\ criticCall.replies[1].methodology = "0.9"
    /\ criticCall.replies[2].quality = "0.9"
    /\ Len(criticCall.errors) >= 2

(***************************************************************************)
(* C27, C28.  What the research stage does with the retrieved documents.   *)
(***************************************************************************)
AttachedKeys == {"title", "authors", "year", "source", "url", "relevance_score"}

\* C27: every document the research stage returns is a retrieved document,
\* with every metadata key it had at retrieval still holding the same value;
\* the keys it has gained are among title, authors, year, source, url and
\* relevance_score.
C27_MetadataAppendOnly ==
    (retrieval.researched /\ retrieval.pc = "returned") =>
        /\ IsSubsequence(retrieval.filtered, retrieval.documents)
        /\ Len(retrieval.processed) = Len(retrieval.filtered)
        /\ \A i \in DOMAIN retrieval.processed :
                LET before == retrieval.filtered[i]
                    after == retrieval.processed[i]
                IN  /\ after.page_content = before.page_content
                    /\ DOMAIN before.metadata \subseteq DOMAIN after.metadata
                    /\ \A k \in DOMAIN before.metadata :
                            after.metadata[k] = before.metadata[k]
                    /\ DOMAIN after.metadata \ DOMAIN before.metadata \subseteq AttachedKeys

\* a returned document that had a title and a score and has gained a year
C27_Witness ==
    /\ retrieval.researched
    /\ retrieval.pc = "returned"
    /\ \E i \in DOMAIN retrieval.processed :
            /\ retrieval.filtered[i].metadata.title = "GNN"
            /\ "year" \notin DOMAIN retrieval.filtered[i].metadata
            /\ "year" \in DOMAIN retrieval.processed[i].metadata
            /\ retrieval.processed[i].metadata.relevance_score = 80

\* C28: every document the research stage returns is database-sourced: a
\* web document carries no relevance_score, is ranked with the key 0, and is
\* removed by the relevance filter.
C28_OnlyDatabaseDocuments ==
    retrieval.researched =>
        /\ \A i \in DOMAIN retrieval.processed :
                retrieval.processed[i].metadata.source = "database"
        /\ \A i \in DOMAIN retrieval.documents :
                retrieval.documents[i].metadata.source = "web" =>
                    /\ "relevance_score" \notin DOMAIN retrieval.documents[i].metadata
                    /\ RelevanceKey(retrieval.documents[i]) = 0
                    /\ retrieval.documents[i] \notin Range(retrieval.filtered)

\* retrieve returned a web document next to a database document that passes
C28_Witness ==
    /\ retrieval.researched
    /\ retrieval.include_web
    /\ \E i \in DOMAIN retrieval.documents : retrieval.documents[i].metadata.source = "web"
    /\ retrieval.processed # <<>>

(***************************************************************************)
(* C29.  The repository's agents never raise into a node.                  *)
(***************************************************************************)
\* C29: with the agents of agents/*.py, no agent call of a node raises:
\* every failure met is recorded in the state of the agent that met it, no
\* node takes its except branch, and state.errors is the empty list in every
\* state of the run.
C29_AgentsNeverRaise ==
    agentImpl = "repo" =>
        /\ lastOutcome # "raised"
        /\ state["errors"] = <<>>
        /\ Len(failures) = TotalAgentErrors

\* a finished run in which the research agent and the writer met failures
C29_Witness ==
    /\ agentImpl = "repo"
    /\ pc = "END"
    /\ agentErrors.research # <<>>
    /\ agentErrors.writer # <<>>
    /\ state["report"] # <<>>

(***************************************************************************)
(* C30.  What the two GET endpoints answer about a started task.           *)
(***************************************************************************)
\* C30: from the return of POST /research until the task's entry is
\* recorded, GET /research/{query_id} and GET /research/{query_id}/status
\* answer not-found for the task's query_id; once the entry is recorded the
\* status is completed or failed.
C30_NotFoundUntilRecorded ==
    \A i \in DOMAIN api.tasks :
        /\ ~api.tasks[i].recorded =>
                /\ get_research_status(api.research_results, api.tasks[i].query_id)
                        = "not found"
                /\ get_research_results(api.research_results, api.tasks[i].query_id)
                        = "not found"
        /\ api.tasks[i].recorded =>
                get_research_status(api.research_results, api.tasks[i].query_id)
                    \in {"completed", "failed"}

====
